---- MODULE Spec2Model ----
(***************************************************************************)
(* Verification model of the reinforcement-learning agents of              *)
(* homework_fall2023:                                                      *)
(*   - hw5 DQNAgent / AWACAgent: critic and target-critic synchronisation  *)
(*   - hw4 ModelBasedAgent: ensemble update, rollout evaluation and        *)
(*     random-shooting MPC                                                 *)
(*   - hw5 run_hw5_finetune.run_training_loop: the offline/online loop     *)
(* Network parameters, gradients, observations, actions and rewards are    *)
(* integers; every operation is translated from the Python source.         *)
(***************************************************************************)
EXTENDS Integers, Sequences, FiniteSets

VARIABLES
    \* ---- hw5 DQNAgent / AWACAgent ----
    critic,                \* parameters of self.critic
    target_critic,         \* parameters of self.target_critic
    actor,                 \* parameters of self.actor (AWACAgent)
    target_update_period,  \* self.target_update_period
    critic_steps,          \* number of critic_optimizer.step() calls so far
    num_updates,           \* number of update(...) calls so far
    last_step,             \* <<step>> argument of the last update call, << >> before
    returned,              \* <<metrics>> returned by the last update call, << >> before
    \* ---- hw4 ModelBasedAgent: ensemble and optimizer ----
    dynamics_params,       \* [member -> parameter of self.dynamics_models[member]]
    grad,                  \* [member -> << >> (None) or <<g>>]: the parameters' .grad
    exp_avg,               \* [member -> momentum kept by self.optimizer]
    stats,                 \* the four normalisation buffers
    num_model_updates,     \* number of update(i, ...) calls so far
    last_member,           \* <<i>> of the last update(i, ...) call, << >> before
    \* ---- hw4 ModelBasedAgent: MPC ----
    mpc_pc,                \* "ready" before get_action, "returned" after
    start_obs,             \* the observation handed to get_action
    env_reward,            \* the environment's reward function (its two weights)
    action_sequences,      \* the sampled action sequences, << >> before
    rewards,               \* what evaluate_action_sequences returned, << >> before
    returned_action,       \* <<action>> returned by get_action, << >> before
    num_evaluate,          \* number of evaluate_action_sequences calls so far
    \* ---- hw5 run_hw5_finetune.run_training_loop ----
    loop_pc,               \* "loop" while iterating, "done" after the last step
    total_steps,           \* config["total_steps"]
    offline_steps,         \* config["offline_steps"]
    eval_interval,         \* args.eval_interval
    step,                  \* the loop variable: the next step to run
    observation,           \* position in the current episode of env
    epsilon,               \* << >> (None) or <<epsilon>>
    replay_buffer,         \* the transitions inserted so far, in order
    batch,                 \* << >> or <<index>> of the transition last sampled
    trace                  \* calls made on replay_buffer, agent and eval_env, in order

dqn_vars == <<critic, target_critic, actor, target_update_period,
              critic_steps, num_updates, last_step, returned>>

ens_vars == <<dynamics_params, grad, exp_avg, stats, num_model_updates, last_member>>

mpc_vars == <<mpc_pc, start_obs, env_reward, action_sequences, rewards,
              returned_action, num_evaluate>>

loop_vars == <<loop_pc, total_steps, offline_steps, eval_interval, step,
               observation, epsilon, replay_buffer, batch, trace>>

vars == <<dqn_vars, ens_vars, mpc_vars, loop_vars>>

-----------------------------------------------------------------------------
(* Bounds of the model *)

\* critic and actor parameters range over 0..MaxParam
MaxParam == 2
\* DQNAgent.update is called at most MaxUpdates times
MaxUpdates == 3
\* the step argument of DQNAgent.update ranges over 0..MaxStep
MaxStep == 4
\* target_update_period ranges over 1..MaxPeriod
MaxPeriod == 3
\* gradients of one batch range over 0..MaxGrad
MaxGrad == 1
\* ModelBasedAgent.update is called at most MaxModelUpdates times
MaxModelUpdates == 3
\* config["total_steps"] ranges over 1..MaxTotalSteps
MaxTotalSteps == 3
\* the dataset loaded from disk holds 1..MaxDataset transitions
MaxDataset == 2

Params == 0..MaxParam
\* values of a dynamics model's parameter after initialisation or training
Weights == {0, 1}
Grads == 0..MaxGrad

\* values the statistics of a batch take (means, standard deviations)
StatMeans == {0, 1}
StatStds == {1, 2}
\* observations handed to get_action
StartObs == {0, 1}
\* reward functions of the environment: reward = w_obs * next_obs + w_acs * acs
\* values of args.eval_interval
EvalIntervals == {1, 2}
RewardFns == { [w_obs |-> 1, w_acs |-> 0 - 2], [w_obs |-> 0 - 1, w_acs |-> 1] }

-----------------------------------------------------------------------------
(* hw5/cs285/agents/dqn_agent.py *)

\* update_target_critic: target_critic.load_state_dict(critic.state_dict());
\* the new parameters of the target critic.
update_target_critic(critic_now) == critic_now

\* update_critic: one step of critic_optimizer on the critic alone; the step
\* depends on the batch, so the new parameters are any value.
update_critic(new_critic) ==
    /\ new_critic \in Params
    /\ critic' = new_critic
    /\ critic_steps' = critic_steps + 1

\* the slip of refreshing the target before the critic has been stepped
DQNAgent_update_target_first(step_arg) ==
    /\ \E new_critic \in Params : update_critic(new_critic)
    /\ LET update_target == (step_arg % target_update_period = 0)
       IN  /\ returned' = << [update_target |-> update_target] >>
           /\ target_critic' = IF update_target
                               THEN update_target_critic(critic)
                               ELSE target_critic
    /\ num_updates' = num_updates + 1
    /\ last_step' = << step_arg >>

\* DQNAgent.update(obs, action, reward, next_obs, done, step)
DQNAgent_update(step_arg) ==
    /\ \E new_critic \in Params : update_critic(new_critic)
    /\ LET update_target == (step_arg % target_update_period = 0)
       IN  /\ returned' = << [update_target |-> update_target] >>
           /\ target_critic' = IF update_target
                               THEN update_target_critic(critic')
                               ELSE target_critic
    /\ num_updates' = num_updates + 1
    /\ last_step' = << step_arg >>

\* DQNAgent.__init__: make_critic for the critic and for the target critic,
\* whose fresh parameters the closing update_target_critic() overwrites.
DQNAgent_init ==
    /\ critic \in Params
    /\ target_critic = update_target_critic(critic)
    /\ target_update_period \in 1..MaxPeriod
    /\ critic_steps = 0
    /\ num_updates = 0
    /\ last_step = << >>
    /\ returned = << >>

(* hw5/cs285/agents/awac_agent.py *)

\* a plain DQNAgent has no actor
NoActor == 0 - 1

\* AWACAgent.__init__: DQNAgent.__init__ then make_actor
AWACAgent_init ==
    /\ DQNAgent_init
    /\ actor \in Params

\* AWACAgent.update_actor: one step of actor_optimizer on the actor alone
update_actor(new_actor) ==
    /\ new_actor \in Params
    /\ actor' = new_actor

\* a call of update on a DQNAgent
DQNUpdate ==
    /\ actor = NoActor
    /\ num_updates < MaxUpdates
    /\ \E step_arg \in 0..MaxStep : DQNAgent_update(step_arg)
    /\ UNCHANGED <<actor, target_update_period>>

\* AWACAgent.update: super().update(...) then update_actor(...)
AWACUpdate ==
    /\ actor # NoActor
    /\ num_updates < MaxUpdates
    /\ \E step_arg \in 0..MaxStep : DQNAgent_update(step_arg)
    /\ \E new_actor \in Params : update_actor(new_actor)
    /\ UNCHANGED <<target_update_period>>

-----------------------------------------------------------------------------
(* hw4/cs285/agents/model_based_agent.py *)

\* self.ensemble_size
ensemble_size == 2
\* self.mpc_horizon
mpc_horizon == 2
\* self.mpc_num_action_sequences
mpc_num_action_sequences == 2
\* self.mpc_strategy: the random-shooting branch of get_action; the "cem"
\* branch is outside this model
mpc_strategy == "random"
\* self.env.action_space.low and .high (ac_dim = 1)
action_space_low == 0
action_space_high == 1

Members == 1..ensemble_size
ActionSpace == action_space_low..action_space_high

\* a parameter's .grad: None or a tensor
None == << >>
Tensor(g) == << g >>

\* the buffers registered by __init__: zero means, unit standard deviations
InitialStats ==
    [obs_acs_mean |-> 0, obs_acs_std |-> 1, obs_delta_mean |-> 0, obs_delta_std |-> 1]

\* the buffers after update_statistics on some data
FittedStats ==
    [obs_acs_mean : StatMeans, obs_acs_std : StatStds,
     obs_delta_mean : StatMeans, obs_delta_std : StatStds]

\* the buffers of an agent get_action is called on: as constructed, or fitted
TrainedStats ==
    {InitialStats,
     [obs_acs_mean |-> 1, obs_acs_std |-> 2, obs_delta_mean |-> 1, obs_delta_std |-> 2]}

\* ModelBasedAgent.__init__: ensemble_size fresh models, one optimizer over the
\* parameters of all of them, the statistics buffers.
ModelBasedAgent_init ==
    /\ dynamics_params \in [Members -> Weights]
    /\ grad = [j \in Members |-> None]
    /\ exp_avg = [j \in Members |-> 0]
    /\ stats = InitialStats
    /\ num_model_updates = 0
    /\ last_member = << >>

\* optimizer.zero_grad() leaving zero tensors in place of the old gradients
zero_grad_zeros(g) == [j \in DOMAIN g |-> IF g[j] = None THEN None ELSE Tensor(0)]

\* self.optimizer.zero_grad(): the gradient of every parameter of the optimizer
\* is reset to None.
zero_grad(g) == [j \in DOMAIN g |-> None]

\* loss.backward(): the loss is computed from dynamics_models[i] alone (and the
\* statistics buffers, which are no parameters), so only member i receives a
\* gradient; it is accumulated onto the gradient already there.
backward(g, i, batch_grad) ==
    [g EXCEPT ![i] = IF g[i] = None THEN Tensor(batch_grad)
                     ELSE Tensor(g[i][1] + batch_grad)]

\* self.optimizer.step() of an optimizer with momentum: every parameter whose
\* gradient is not None has its momentum and then its value updated; a
\* parameter whose gradient is None is skipped.
step_exp_avg(m, g) ==
    [j \in DOMAIN m |-> IF g[j] = None THEN m[j] ELSE m[j] + g[j][1]]
step_params(p, m, g) ==
    [j \in DOMAIN p |-> IF g[j] = None THEN p[j] ELSE p[j] - step_exp_avg(m, g)[j]]

\* ModelBasedAgent.update(i, obs, acs, next_obs)
ModelBasedAgent_update(i, batch_grad) ==
    LET g == backward(zero_grad(grad), i, batch_grad)
    IN  /\ grad' = g
        /\ exp_avg' = step_exp_avg(exp_avg, g)
        /\ dynamics_params' = step_params(dynamics_params, exp_avg, g)
        /\ num_model_updates' = num_model_updates + 1
        /\ last_member' = << i >>
        /\ UNCHANGED stats

Update ==
    /\ num_model_updates < MaxModelUpdates
    /\ \E i \in Members, batch_grad \in Grads : ModelBasedAgent_update(i, batch_grad)

\* ModelBasedAgent.update_statistics(obs, acs, next_obs): the four buffers are
\* overwritten with the means and standard deviations of the data.
UpdateStatistics ==
    /\ \E fitted \in FittedStats : stats' = fitted
    /\ UNCHANGED <<dynamics_params, grad, exp_avg, num_model_updates, last_member>>

\* _get_normed_in: (cat[obs, acs] - obs_acs_mean) / (obs_acs_std + eps), on
\* integers (eps dropped, the quotient floored); ob_dim = ac_dim = 1.
get_normed_in(s, obs, acs) ==
    << (obs - s.obs_acs_mean) \div s.obs_acs_std,
       (acs - s.obs_acs_mean) \div s.obs_acs_std >>

\* self.dynamics_models[i](x): a network with the single weight theta
dynamics_model(theta, x) == theta * (x[1] + x[2]) + x[2]

\* get_dynamics_predictions(i, obs, acs) for one row of the batch
get_dynamics_predictions(i, obs, acs) ==
    LET preds_normed == dynamics_model(dynamics_params[i], get_normed_in(stats, obs, acs))
    IN  obs + stats.obs_delta_std * preds_normed + stats.obs_delta_mean

\* self.env.get_reward(next_obs, acs) for one row
get_reward(next_obs, acs) == env_reward.w_obs * next_obs + env_reward.w_acs * acs

\* np.repeat(acs, ensemble_size, axis=0) in place of np.tile
repeat_acs(acs) ==
    [f \in 0..(ensemble_size * mpc_num_action_sequences - 1) |->
        acs[(f \div ensemble_size) + 1]]

\* np.tile(acs, (ensemble_size, 1)): the batch of actions, ensemble_size times
\* over; rows are numbered from 0
tile_acs(acs) ==
    [f \in 0..(ensemble_size * mpc_num_action_sequences - 1) |->
        acs[(f % mpc_num_action_sequences) + 1]]

\* next_obs.reshape(-1, ob_dim): member-major rows
flatten(next_obs) ==
    [f \in 0..(ensemble_size * mpc_num_action_sequences - 1) |->
        next_obs[(f \div mpc_num_action_sequences) + 1][(f % mpc_num_action_sequences) + 1]]

\* rewards.reshape(ensemble_size, mpc_num_action_sequences)
unflatten(flat) ==
    [i \in Members |-> [k \in 1..mpc_num_action_sequences |->
        flat[(i - 1) * mpc_num_action_sequences + (k - 1)]]]

\* one pass of the loop over the horizon, from step t on, carrying obs and
\* sum_of_rewards (both ensemble_size x mpc_num_action_sequences)
RECURSIVE horizon_loop(_, _, _, _)
horizon_loop(t, seqs, obs, sum_of_rewards) ==
    IF t > Len(seqs[1]) THEN sum_of_rewards
    ELSE LET acs == [k \in 1..mpc_num_action_sequences |-> seqs[k][t]]
             next_obs == [i \in Members |-> [k \in 1..mpc_num_action_sequences |->
                              get_dynamics_predictions(i, obs[i][k], acs[k])]]
             flat_obs == flatten(next_obs)
             flat_acs == tile_acs(acs)
             flat_rewards == [f \in DOMAIN flat_obs |-> get_reward(flat_obs[f], flat_acs[f])]
             step_rewards == unflatten(flat_rewards)
         IN  horizon_loop(t + 1, seqs, next_obs,
                 [i \in Members |-> [k \in 1..mpc_num_action_sequences |->
                      sum_of_rewards[i][k] + step_rewards[i][k]]])

RECURSIVE SumOver(_, _)
SumOver(f, S) ==
    IF S = {} THEN 0
    ELSE LET x == CHOOSE y \in S : TRUE IN f[x] + SumOver(f, S \ {x})

\* sum_of_rewards.mean(axis=0): per sequence, the mean over the members, kept
\* as the fraction num / den
mean_axis0(sum_of_rewards) ==
    [k \in 1..mpc_num_action_sequences |->
        [num |-> SumOver([i \in Members |-> sum_of_rewards[i][k]], Members),
         den |-> ensemble_size]]

\* evaluate_action_sequences(obs, action_sequences)
evaluate_action_sequences(obs, seqs) ==
    mean_axis0(horizon_loop(1, seqs,
        [i \in Members |-> [k \in 1..mpc_num_action_sequences |-> obs]],
        [i \in Members |-> [k \in 1..mpc_num_action_sequences |-> 0]]))

\* np.argmin in place of np.argmax
argmin(r) ==
    CHOOSE k \in DOMAIN r :
        /\ \A j \in DOMAIN r : r[k].num <= r[j].num
        /\ \A j \in DOMAIN r : j < k => r[j].num > r[k].num

\* np.argmax(rewards): the first index of a maximal entry (the fractions share
\* their denominator)
argmax(r) ==
    CHOOSE k \in DOMAIN r :
        /\ \A j \in DOMAIN r : r[k].num >= r[j].num
        /\ \A j \in DOMAIN r : j < k => r[j].num < r[k].num

\* get_action(obs) with mpc_strategy = "random"
GetAction ==
    /\ mpc_pc = "ready"
    /\ mpc_strategy = "random"
    /\ \E seqs \in [1..mpc_num_action_sequences -> [1..mpc_horizon -> ActionSpace]] :
          LET r == evaluate_action_sequences(start_obs, seqs)
              best_index == argmax(r)
          IN  /\ action_sequences' = seqs
              /\ rewards' = r
              /\ num_evaluate' = num_evaluate + 1
              /\ returned_action' = << seqs[best_index][1] >>
    /\ mpc_pc' = "returned"
    /\ UNCHANGED <<start_obs, env_reward>>

-----------------------------------------------------------------------------
(* hw5/cs285/scripts/run_hw5_finetune.py *)

\* a call record: the operation, the loop step it was made in, and the number
\* of transitions inserted into the replay buffer when it was made
Call(op, s, buf) == [op |-> op, step |-> s, size |-> Len(buf)]

\* the transitions of the dataset on disk, inserted before the loop
Dataset(n) == [x \in 1..n |-> [origin |-> "dataset", step |-> x, done |-> FALSE]]

\* run_training_loop up to the loop: the replay buffer filled from the
\* dataset, env.reset(), epsilon = None
run_training_loop_init ==
    /\ total_steps \in 1..MaxTotalSteps
    /\ offline_steps \in 0..total_steps
    /\ eval_interval \in EvalIntervals
    /\ \E n \in 1..MaxDataset : replay_buffer = Dataset(n)
    /\ observation = 0
    /\ epsilon = << >>
    /\ step = 0
    /\ batch = << >>
    /\ trace = << >>
    /\ loop_pc = "loop"

\* the calls of sample_n_trajectories on eval_env when the step is due
EvalCalls(s, buf) ==
    IF s % eval_interval = 0 THEN << Call("eval", s, buf) >> ELSE << >>

\* one iteration with the batch sampled before the transition is inserted
TrainingIteration_sample_first ==
    /\ loop_pc = "loop"
    /\ step < total_steps
    /\ \E done \in BOOLEAN, truncated \in BOOLEAN, b \in 1..Len(replay_buffer) :
          LET online == step > offline_steps
              transition == [origin |-> "online", step |-> step,
                             done |-> (done /\ ~truncated)]
              buf == IF online THEN Append(replay_buffer, transition)
                     ELSE replay_buffer
          IN  /\ replay_buffer' = buf
              /\ epsilon' = IF online THEN << 0 >> ELSE epsilon
              /\ observation' = IF online
                                THEN (IF done THEN 0 ELSE observation + 1)
                                ELSE observation
              /\ batch' = << b >>
              /\ trace' = trace
                    \o << Call("sample", step, replay_buffer) >>
                    \o (IF online THEN << Call("insert", step, buf) >> ELSE << >>)
                    \o << Call("update", step, buf) >>
                    \o EvalCalls(step, buf)
    /\ step' = step + 1
    /\ loop_pc' = IF step + 1 = total_steps THEN "done" ELSE "loop"
    /\ UNCHANGED <<total_steps, offline_steps, eval_interval>>

\* one iteration of `for step in tqdm.trange(config["total_steps"])`:
\*   if step > num_offline_steps: act with epsilon = 0, step the environment,
\*      insert the transition, reset the environment when the episode is done
\*   batch = replay_buffer.sample(batch_size)
\*   agent.update(..., step)
\*   evaluate when step % eval_interval == 0
TrainingIteration ==
    /\ loop_pc = "loop"
    /\ step < total_steps
    /\ \E done \in BOOLEAN, truncated \in BOOLEAN :
          LET online == step > offline_steps
              transition == [origin |-> "online", step |-> step,
                             done |-> (done /\ ~truncated)]
              buf == IF online THEN Append(replay_buffer, transition)
                     ELSE replay_buffer
          IN  /\ replay_buffer' = buf
              /\ epsilon' = IF online THEN << 0 >> ELSE epsilon
              /\ observation' = IF online
                                THEN (IF done THEN 0 ELSE observation + 1)
                                ELSE observation
              /\ \E b \in 1..Len(buf) : batch' = << b >>
              /\ trace' = trace
                    \o (IF online THEN << Call("insert", step, buf) >> ELSE << >>)
                    \o << Call("sample", step, buf) >>
                    \o << Call("update", step, buf) >>
                    \o EvalCalls(step, buf)
    /\ step' = step + 1
    /\ loop_pc' = IF step + 1 = total_steps THEN "done" ELSE "loop"
    /\ UNCHANGED <<total_steps, offline_steps, eval_interval>>

-----------------------------------------------------------------------------
(* States of the parts a specification leaves alone *)

DQNUnused ==
    /\ critic = 0 /\ target_critic = 0 /\ actor = NoActor
    /\ target_update_period = 1 /\ critic_steps = 0 /\ num_updates = 0
    /\ last_step = << >> /\ returned = << >>

MPCUnused ==
    /\ mpc_pc = "unused" /\ start_obs = 0 /\ env_reward = << >>
    /\ action_sequences = << >> /\ rewards = << >>
    /\ returned_action = << >> /\ num_evaluate = 0

EnsembleUnused ==
    /\ dynamics_params = << >> /\ grad = << >> /\ exp_avg = << >>
    /\ stats = InitialStats /\ num_model_updates = 0 /\ last_member = << >>

LoopUnused ==
    /\ loop_pc = "unused" /\ total_steps = 0 /\ offline_steps = 0
    /\ eval_interval = 1 /\ step = 0 /\ observation = 0 /\ epsilon = << >>
    /\ replay_buffer = << >> /\ batch = << >> /\ trace = << >>

-----------------------------------------------------------------------------
(* Specifications *)

\* the DQN and AWAC agents under any sequence of update calls
InitDQN ==
    /\ \/ DQNAgent_init /\ actor = NoActor
       \/ AWACAgent_init
    /\ EnsembleUnused
    /\ MPCUnused
    /\ LoopUnused
NextDQN ==
    \/ DQNUpdate /\ UNCHANGED <<ens_vars, mpc_vars, loop_vars>>
    \/ AWACUpdate /\ UNCHANGED <<ens_vars, mpc_vars, loop_vars>>
SpecDQN == InitDQN /\ [][NextDQN]_vars

\* the ensemble under any sequence of update and update_statistics calls
InitEnsemble ==
    /\ ModelBasedAgent_init
    /\ DQNUnused
    /\ MPCUnused
    /\ LoopUnused
NextEnsemble ==
    \/ Update /\ UNCHANGED <<dqn_vars, mpc_vars, loop_vars>>
    \/ UpdateStatistics /\ UNCHANGED <<dqn_vars, mpc_vars, loop_vars>>
SpecEnsemble == InitEnsemble /\ [][NextEnsemble]_vars

\* get_action on an agent in any state training leaves it in
InitMPC ==
    /\ dynamics_params \in [Members -> Weights]
    /\ grad = [j \in Members |-> None]
    /\ exp_avg = [j \in Members |-> 0]
    /\ stats \in TrainedStats
    /\ num_model_updates = 0
    /\ last_member = << >>
    /\ mpc_pc = "ready"
    /\ start_obs \in StartObs
    /\ env_reward \in RewardFns
    /\ action_sequences = << >>
    /\ rewards = << >>
    /\ returned_action = << >>
    /\ num_evaluate = 0
    /\ DQNUnused
    /\ LoopUnused
NextMPC == GetAction /\ UNCHANGED <<dqn_vars, ens_vars, loop_vars>>
SpecMPC == InitMPC /\ [][NextMPC]_vars

\* the training loop from its first to its last step
InitLoop ==
    /\ run_training_loop_init
    /\ DQNUnused
    /\ EnsembleUnused
    /\ MPCUnused
NextLoop == TrainingIteration /\ UNCHANGED <<dqn_vars, ens_vars, mpc_vars>>
SpecLoop == InitLoop /\ [][NextLoop]_vars

-----------------------------------------------------------------------------
(* Properties *)

\* C1: every update(..., step) call steps the critic exactly once, then
\* overwrites the target critic with the already-updated critic iff
\* step % target_update_period = 0, leaves it unchanged otherwise, and
\* returns update_target = TRUE exactly when it overwrote; directly after
\* construction the target critic equals the critic.
C1_TargetSync ==
    /\ (num_updates = 0 => target_critic = critic)
    /\ [][ num_updates' = num_updates + 1 =>
             /\ critic_steps' = critic_steps + 1
             /\ LET due == (last_step'[1] % target_update_period = 0)
                IN  /\ returned'[1].update_target = due
                    /\ due => target_critic' = critic'
                    /\ ~due => target_critic' = target_critic ]_vars

\* an update call on a step that is a positive multiple of the period has
\* overwritten the target, after earlier calls
C1_Witness ==
    /\ num_updates >= 2
    /\ returned[1].update_target
    /\ target_critic = critic
    /\ critic_steps = num_updates
    /\ last_step[1] > 0

\* C2: update(i, ...) changes the parameters of no dynamics model other than
\* model i, whatever update calls came before on the shared optimizer, and
\* leaves the normalisation statistics unchanged.
C2_UpdateFrame ==
    [][ num_model_updates' = num_model_updates + 1 =>
          /\ \A j \in Members \ {last_member'[1]} :
                 dynamics_params'[j] = dynamics_params[j]
          /\ stats' = stats ]_vars

\* member i was updated while another member, updated earlier, still carries
\* momentum in the shared optimizer, and the statistics had been fitted
C2_Witness ==
    /\ num_model_updates >= 2
    /\ \E j \in Members : j # last_member[1] /\ exp_avg[j] # 0
    /\ grad[last_member[1]] # None /\ grad[last_member[1]][1] # 0
    /\ stats # InitialStats

\* the rollout of member i on sequence k: the observation after t steps, each
\* step fed member i's own previous prediction and the sequence's action
RECURSIVE Rollout(_, _, _)
Rollout(i, k, t) ==
    IF t = 0 THEN start_obs
    ELSE get_dynamics_predictions(i, Rollout(i, k, t - 1), action_sequences[k][t])

RECURSIVE RolloutReturn(_, _, _)
RolloutReturn(i, k, t) ==
    IF t = 0 THEN 0
    ELSE RolloutReturn(i, k, t - 1) + get_reward(Rollout(i, k, t), action_sequences[k][t])

RECURSIVE EnsembleTotal(_, _)
EnsembleTotal(i, k) ==
    IF i = 0 THEN 0 ELSE EnsembleTotal(i - 1, k) + RolloutReturn(i, k, mpc_horizon)

\* C3: evaluate_action_sequences returns, for each sequence k, the mean over
\* the members i of the summed rewards of member i's own rollout of k from
\* obs, the reward of a step being that of the predicted next observation
\* and the step's action.
C3_EnsembleMeanReturn ==
    mpc_pc = "returned" =>
        /\ DOMAIN rewards = 1..mpc_num_action_sequences
        /\ \A k \in 1..mpc_num_action_sequences :
              /\ rewards[k].den = ensemble_size
              /\ rewards[k].num = EnsembleTotal(ensemble_size, k)

\* two members predict different rollouts for a sequence with differing
\* actions, and the sequences' returns differ
C3_Witness ==
    /\ mpc_pc = "returned"
    /\ \E k \in 1..mpc_num_action_sequences :
          /\ Rollout(1, k, mpc_horizon) # Rollout(2, k, mpc_horizon)
          /\ action_sequences[k][1] # action_sequences[k][2]
    /\ rewards[1].num # rewards[2].num
    /\ action_sequences[1][1] # action_sequences[2][1]

\* C4: with the random strategy get_action evaluates the sampled sequences
\* once and returns the first action of a sequence of maximal evaluated
\* return, which lies within the action-space bounds.
C4_BestFirstAction ==
    mpc_pc = "returned" =>
        /\ num_evaluate = 1
        /\ DOMAIN rewards = DOMAIN action_sequences
        /\ \E k \in DOMAIN action_sequences :
              /\ returned_action = << action_sequences[k][1] >>
              /\ \A j \in DOMAIN rewards :
                     rewards[k].num * rewards[j].den >= rewards[j].num * rewards[k].den
        /\ action_space_low <= returned_action[1]
        /\ returned_action[1] <= action_space_high

\* the best sequence is not the first one sampled, and its first action
\* differs from the first action of a worse sequence
C4_Witness ==
    /\ mpc_pc = "returned"
    /\ rewards[2].num > rewards[1].num
    /\ returned_action[1] = action_sequences[2][1]
    /\ action_sequences[2][1] # action_sequences[1][1]
    /\ action_sequences[2][1] # action_sequences[2][2]

\* positions in the trace of the calls of operation op made in step s
Positions(op, s) ==
    { p \in 1..Len(trace) : trace[p].op = op /\ trace[p].step = s }

\* C5: the loop runs the steps 0, 1, ... in increasing order; each step makes
\* exactly one replay-buffer sample and then exactly one agent.update carrying
\* that step, offline and online alike; an online step inserts its transition
\* before its batch is sampled; the calls of one step come after all calls of
\* the step before, and the loop ends after total_steps steps.
C5_SequentialLoop ==
    /\ step \in 0..total_steps
    /\ (loop_pc = "done") = (step = total_steps)
    /\ \A p \in 1..Len(trace) : trace[p].step < step
    /\ \A p \in 1..Len(trace), q \in 1..Len(trace) :
          p < q => trace[p].step <= trace[q].step
    /\ \A s \in 0..(step - 1) :
          /\ Cardinality(Positions("sample", s)) = 1
          /\ Cardinality(Positions("update", s)) = 1
          /\ \A p \in Positions("sample", s), q \in Positions("update", s) : q = p + 1
          /\ Cardinality(Positions("insert", s)) = (IF s > offline_steps THEN 1 ELSE 0)
          /\ \A p \in Positions("insert", s), q \in Positions("sample", s) :
                /\ q = p + 1
                /\ trace[q].size = trace[p].size
                /\ replay_buffer[trace[p].size].step = s
                /\ replay_buffer[trace[p].size].origin = "online"

\* the loop has finished after offline steps and at least one online step,
\* and the last batch is the transition inserted in the last step
C5_Witness ==
    /\ loop_pc = "done"
    /\ offline_steps >= 1
    /\ Cardinality({ p \in 1..Len(trace) : trace[p].op = "insert" }) >= 1
    /\ Cardinality({ p \in 1..Len(trace) : trace[p].op = "sample" }) = total_steps
    /\ batch = << Len(replay_buffer) >>

====
